---- MODULE Spec2Model ----
(***************************************************************************)
(* A model of the weighted LRU cache of package lrucache                   *)
(* (src/unnamed/part_001), of the download Job of package downloader       *)
(* (src/internal/fs/kernel_list_cache_test.go, lines 575-769) and of the   *)
(* directory listings that the kernel list cache tests of the same file    *)
(* (lines 18-475) drive.                                                   *)
(*                                                                         *)
(* The cache is a container/list of elements plus an index from key to     *)
(* *list.Element.  Elements are modelled as heap cells with an identity,   *)
(* so that the index (key -> pointer) and the recency list (sequence of    *)
(* pointers) are two separate structures that can disagree.                *)
(*                                                                         *)
(* Weights are uint64 in the source.  A uint64 is modelled by the integer   *)
(* of least magnitude that is congruent to it modulo 2^64: a negative      *)
(* number n stands for 2^64 + n, the value a subtraction below zero wraps  *)
(* to.  Every weight of the model is far below 2^63, so sums and           *)
(* differences are computed as plain integers and compared by Above.       *)
(***************************************************************************)
EXTENDS Integers, Sequences, FiniteSets, TLC

----------------------------------------------------------------------------
(* Bounds of the model                                                     *)

\* the largest Weight() a value of the model reports
MaxValueWeight == 4
\* the number of distinguishable values per weight
MaxTag == 1
\* the two positive maxWeight settings a cache is constructed with
SmallMaxWeight == 3
LargeMaxWeight == 10
\* the number of calls each of the concurrent threads makes
MaxCalls == 1
\* the most entries a stream handed to GobDecode from outside holds
MaxStreamEntries == 2

Keys == {"A", "B", "C"}
\* the weights values report: none, one unit, a whole small cache, the largest
Weights == {0, 1, SmallMaxWeight, MaxValueWeight}
Tags == 1..MaxTag
\* New(0) is accepted by the constructor, so 0 is a construction input too
MaxWeightChoices == {0, SmallMaxWeight, LargeMaxWeight}
\* the keys and values of the larger state spaces (several callers, streams)
ConcKeys == {"A", "B"}
ConcValues == {[w |-> 1, tag |-> 1], [w |-> SmallMaxWeight, tag |-> 1]}

----------------------------------------------------------------------------
(* Values                                                                  *)

\* a non-nil ValueType: its Weight() and an identity that tells values of
\* equal weight apart
Values == [w : Weights, tag : Tags]
\* the nil interface value
NilValue == [w |-> 0, tag |-> 0]

Weight(v) == v.w

\* a > b for two uint64 (see the note on top): a negative number stands for a
\* value above every non-negative one
Above(a, b) ==
    IF a < 0 THEN (b >= 0 \/ a > b) ELSE (b >= 0 /\ a > b)

\* type entry struct { Key; Value }
Entry(k, v) == [Key |-> k, Value |-> v]

EmptyMap == [x \in {} |-> x]

----------------------------------------------------------------------------
(* container/list, as the cache uses it                                    *)

SeqRange(s) == {s[i] : i \in 1..Len(s)}

SeqWithout(s, x) == SelectSeq(s, LAMBDA y : y # x)

MapPut(f, k, v) == [x \in DOMAIN f \cup {k} |-> IF x = k THEN v ELSE f[x]]

MapDel(f, k) == [x \in DOMAIN f \ {k} |-> f[x]]

\* the address of a newly allocated element: one that no live element has
NewElement(cc, k) ==
    LET used == {n \in 0..Cardinality(DOMAIN cc.heap) : <<k, n>> \in DOMAIN cc.heap}
        free == (0..Cardinality(DOMAIN cc.heap)) \ used
    IN  <<k, CHOOSE n \in free : \A m \in free : n <= m>>

\* elements that neither the list nor the index references are garbage
Collect(cc) ==
    LET live == SeqRange(cc.entries) \cup {cc.index[k] : k \in DOMAIN cc.index}
    IN  [cc EXCEPT !.heap = [e \in DOMAIN cc.heap \cap live |-> cc.heap[e]]]

\* l.PushFront(v): a new element at the front; e names the new element
PushFront(cc, e, v) ==
    [cc EXCEPT !.entries = <<e>> \o cc.entries,
               !.heap = MapPut(cc.heap, e, v)]

\* l.PushBack(v)
PushBack(cc, e, v) ==
    [cc EXCEPT !.entries = Append(cc.entries, e),
               !.heap = MapPut(cc.heap, e, v)]

\* l.MoveToFront(e): nothing happens when e is not an element of l
MoveToFront(cc, e) ==
    IF e \in SeqRange(cc.entries)
    THEN [cc EXCEPT !.entries = <<e>> \o SeqWithout(cc.entries, e)]
    ELSE cc

\* l.Remove(e): nothing happens when e is not an element of l
ListRemove(cc, e) ==
    [cc EXCEPT !.entries = SeqWithout(cc.entries, e)]

----------------------------------------------------------------------------
(* The cache                                                               *)

New(maxWeight) ==
    [maxWeight |-> maxWeight,
     occupiedWeight |-> 0,
     entries |-> <<>>,
     index |-> EmptyMap,
     heap |-> EmptyMap]

\* the keys of the recency list, front (most recent) first
KeysOf(cc) == [i \in 1..Len(cc.entries) |-> cc.heap[cc.entries[i]].Key]

\* the entries of the recency list, front first
EntriesOf(cc) == [i \in 1..Len(cc.entries) |-> cc.heap[cc.entries[i]]]

RECURSIVE SumWeights(_)
SumWeights(s) == IF s = <<>> THEN 0 ELSE Weight(Head(s).Value) + SumWeights(Tail(s))

----------------------------------------------------------------------------
(* Cache.evictOne                                                          *)

\* evictOne as it would be if it evicted from the front of the list
evictOne_Front(cc) ==
    IF cc.entries = <<>>
    THEN [c |-> cc, key |-> "", value |-> NilValue, panicked |-> TRUE]
    ELSE LET e == cc.entries[1]
             key == cc.heap[e].Key
             evictedEntry == cc.heap[e].Value
             c1 == [cc EXCEPT !.occupiedWeight = @ - Weight(evictedEntry)]
             c2 == ListRemove(c1, e)
             c3 == [c2 EXCEPT !.index = MapDel(@, key)]
         IN  [c |-> c3, key |-> key, value |-> evictedEntry, panicked |-> FALSE]

\* evictOne as it would be without delete(c.index, key)
evictOne_KeepsIndex(cc) ==
    IF cc.entries = <<>>
    THEN [c |-> cc, key |-> "", value |-> NilValue, panicked |-> TRUE]
    ELSE LET e == cc.entries[Len(cc.entries)]
             key == cc.heap[e].Key
             evictedEntry == cc.heap[e].Value
             c1 == [cc EXCEPT !.occupiedWeight = @ - Weight(evictedEntry)]
             c2 == ListRemove(c1, e)
         IN  [c |-> c2, key |-> key, value |-> evictedEntry, panicked |-> FALSE]

\* evictOne removes the element at the back of the list.  On an empty list
\* Back() is nil and e.Value dereferences it: a panic.
evictOne(cc) ==
    IF cc.entries = <<>>
    THEN [c |-> cc, key |-> "", value |-> NilValue, panicked |-> TRUE]
    ELSE LET e == cc.entries[Len(cc.entries)]
             key == cc.heap[e].Key
             evictedEntry == cc.heap[e].Value
             c1 == [cc EXCEPT !.occupiedWeight = @ - Weight(evictedEntry)]
             c2 == ListRemove(c1, e)
             c3 == [c2 EXCEPT !.index = MapDel(@, key)]
         IN  [c |-> c3, key |-> key, value |-> evictedEntry, panicked |-> FALSE]

\* the eviction loop as it would be with the condition occupiedWeight >= maxWeight
RECURSIVE evictLoop_AtLeast(_, _, _)
evictLoop_AtLeast(cc, evictedValues, evictedKeys) ==
    IF ~Above(cc.maxWeight, cc.occupiedWeight)
    THEN LET r == evictOne(cc)
         IN  IF r.panicked
             THEN [c |-> r.c, evicted |-> evictedValues, evictedKeys |-> evictedKeys,
                   panicked |-> TRUE]
             ELSE evictLoop_AtLeast(r.c, Append(evictedValues, r.value),
                                    Append(evictedKeys, r.key))
    ELSE [c |-> cc, evicted |-> evictedValues, evictedKeys |-> evictedKeys,
          panicked |-> FALSE]

\* for c.occupiedWeight > c.maxWeight { evictedValues = append(evictedValues, c.evictOne()) }
RECURSIVE evictLoop(_, _, _)
evictLoop(cc, evictedValues, evictedKeys) ==
    IF Above(cc.occupiedWeight, cc.maxWeight)
    THEN LET r == evictOne(cc)
         IN  IF r.panicked
             THEN [c |-> r.c, evicted |-> evictedValues, evictedKeys |-> evictedKeys,
                   panicked |-> TRUE]
             ELSE evictLoop(r.c, Append(evictedValues, r.value), Append(evictedKeys, r.key))
    ELSE [c |-> cc, evicted |-> evictedValues, evictedKeys |-> evictedKeys,
          panicked |-> FALSE]

----------------------------------------------------------------------------
(* Cache.Insert                                                            *)

\* insertEntry as it would be if the update did not subtract the old weight
insertEntry_KeepsOldWeight(cc, key, value) ==
    IF key \in DOMAIN cc.index
    THEN LET e == cc.index[key]
             c1 == [cc EXCEPT !.occupiedWeight = @ + Weight(value),
                              !.heap = [@ EXCEPT ![e] = Entry(key, value)]]
         IN  MoveToFront(c1, e)
    ELSE LET e == NewElement(cc, key)
             c1 == PushFront(cc, e, Entry(key, value))
         IN  [c1 EXCEPT !.index = MapPut(@, key, e),
                        !.occupiedWeight = @ + Weight(value)]

\* the branch on c.index[key]: update the element in place, or push a new one
insertEntry(cc, key, value) ==
    IF key \in DOMAIN cc.index
    THEN LET e == cc.index[key]
             c1 == [cc EXCEPT !.occupiedWeight =
                                 (@ - Weight(cc.heap[e].Value)) + Weight(value),
                              !.heap = [@ EXCEPT ![e] = Entry(key, value)]]
         IN  MoveToFront(c1, e)
    ELSE LET e == NewElement(cc, key)
             c1 == PushFront(cc, e, Entry(key, value))
         IN  [c1 EXCEPT !.index = MapPut(@, key, e),
                        !.occupiedWeight = @ + Weight(value)]

\* Insert as it would be if it handed the value it replaces back as well
Insert_ReturnsReplaced(cc, key, value) ==
    IF value = NilValue
    THEN [c |-> cc, evicted |-> <<>>, evictedKeys |-> <<>>, panicked |-> TRUE,
          mid |-> cc]
    ELSE LET mid == insertEntry(cc, key, value)
             r == evictLoop(mid, <<>>, <<>>)
         IN  [c |-> Collect(r.c),
              evicted |-> IF key \in DOMAIN cc.index
                          THEN <<cc.heap[cc.index[key]].Value>> \o r.evicted
                          ELSE r.evicted,
              evictedKeys |-> IF key \in DOMAIN cc.index
                              THEN <<key>> \o r.evictedKeys ELSE r.evictedKeys,
              panicked |-> r.panicked, mid |-> mid]

\* Insert: c is the cache afterwards, evicted the returned slice, evictedKeys
\* the keys the evicted values were stored under, mid the cache as it is
\* between the update and the eviction loop (line 163 of the source).
Insert(cc, key, value) ==
    IF value = NilValue
    THEN [c |-> cc, evicted |-> <<>>, evictedKeys |-> <<>>, panicked |-> TRUE,
          mid |-> cc]
    ELSE LET mid == insertEntry(cc, key, value)
             r == evictLoop(mid, <<>>, <<>>)
         IN  [c |-> Collect(r.c), evicted |-> r.evicted, evictedKeys |-> r.evictedKeys,
              panicked |-> r.panicked, mid |-> mid]

----------------------------------------------------------------------------
(* Cache.Erase                                                             *)

\* Erase as it would be without the early return on a key that is absent:
\* e is nil and e.Value dereferences it
Erase_NoNilCheck(cc, key) ==
    [c |-> cc, ret |-> NilValue, panicked |-> TRUE]

\* The named result "value" is still nil when line 184 calls value.Weight():
\* a method call on a nil interface panics, and the deferred Unlock runs.
\* Nothing of the cache has been written by then.
Erase(cc, key) ==
    IF key \notin DOMAIN cc.index
    THEN [c |-> cc, ret |-> NilValue, panicked |-> FALSE]
    ELSE LET e == cc.index[key]
             value == NilValue
             deletedEntry == cc.heap[e].Value
         IN  IF value = NilValue
             THEN [c |-> cc, ret |-> NilValue, panicked |-> TRUE]
             ELSE LET c1 == [cc EXCEPT !.occupiedWeight = @ - Weight(value),
                                       !.index = MapDel(@, key)]
                  IN  [c |-> Collect(ListRemove(c1, e)), ret |-> deletedEntry,
                       panicked |-> FALSE]

----------------------------------------------------------------------------
(* Cache.LookUp                                                            *)

\* LookUp as it would be without MoveToFront
LookUp_NoPromote(cc, key) ==
    IF key \notin DOMAIN cc.index
    THEN [c |-> cc, ret |-> NilValue]
    ELSE [c |-> cc, ret |-> cc.heap[cc.index[key]].Value]

LookUp(cc, key) ==
    IF key \notin DOMAIN cc.index
    THEN [c |-> cc, ret |-> NilValue]
    ELSE LET e == cc.index[key]
         IN  [c |-> MoveToFront(cc, e), ret |-> cc.heap[e].Value]

----------------------------------------------------------------------------
(* Cache.CheckInvariants: TRUE when it returns, FALSE when it panics       *)

CheckInvariants(cc) ==
    /\ Above(cc.maxWeight, 0)
    /\ ~Above(cc.occupiedWeight, cc.maxWeight)
    /\ Len(cc.entries) = Cardinality(DOMAIN cc.index)
    /\ \A i \in 1..Len(cc.entries) :
          LET k == cc.heap[cc.entries[i]].Key
          IN  k \in DOMAIN cc.index /\ cc.index[k] = cc.entries[i]

----------------------------------------------------------------------------
(* Gob encoding                                                            *)

\* The stream GobEncode writes: three gob messages, maxWeight, occupiedWeight
\* and the slice of entries in list order.  The elements' addresses and the
\* index are not on the wire.
GobEncode(cc) ==
    << [kind |-> "uint64", val |-> cc.maxWeight],
       [kind |-> "uint64", val |-> cc.occupiedWeight],
       [kind |-> "entries", val |-> EntriesOf(cc)] >>

\* the loop of GobDecode as it would be with PushFront
RECURSIVE storeEach_PushFront(_, _)
storeEach_PushFront(cc, entrySlice) ==
    IF entrySlice = <<>>
    THEN cc
    ELSE LET ent == Head(entrySlice)
             e == NewElement(cc, ent.Key)
             c1 == PushFront(cc, e, ent)
         IN  storeEach_PushFront([c1 EXCEPT !.index = MapPut(@, ent.Key, e)],
                                 Tail(entrySlice))

\* for _, entry := range entrySlice { e := c.entries.PushBack(entry); c.index[entry.Key] = e }
RECURSIVE storeEach(_, _)
storeEach(cc, entrySlice) ==
    IF entrySlice = <<>>
    THEN cc
    ELSE LET ent == Head(entrySlice)
             e == NewElement(cc, ent.Key)
             c1 == PushBack(cc, e, ent)
         IN  storeEach([c1 EXCEPT !.index = MapPut(@, ent.Key, e)], Tail(entrySlice))

\* GobDecode as it would be if *c = New(maxWeight) ran after the entries
\* were decoded
GobDecode_NewLast(cc, b) ==
    IF Len(b) < 1 \/ b[1].kind # "uint64"
    THEN [c |-> cc, err |-> "decoding maxWeight"]
    ELSE IF Len(b) < 2 \/ b[2].kind # "uint64"
    THEN [c |-> cc, err |-> "decoding occupiedWeight"]
    ELSE IF Len(b) < 3 \/ b[3].kind # "entries"
    THEN [c |-> cc, err |-> "decoding entries"]
    ELSE [c |-> [Collect(storeEach(New(b[1].val), b[3].val)) EXCEPT
                    !.occupiedWeight = b[2].val],
          err |-> "nil"]

\* GobDecode reads the three messages in turn; a message that is missing or of
\* another kind is a decoding error.  *c = New(maxWeight) runs before the
\* entries are decoded.
GobDecode(cc, b) ==
    IF Len(b) < 1 \/ b[1].kind # "uint64"
    THEN [c |-> cc, err |-> "decoding maxWeight"]
    ELSE IF Len(b) < 2 \/ b[2].kind # "uint64"
    THEN [c |-> cc, err |-> "decoding occupiedWeight"]
    ELSE LET c0 == New(b[1].val)
         IN  IF Len(b) < 3 \/ b[3].kind # "entries"
             THEN [c |-> c0, err |-> "decoding entries"]
             ELSE [c |-> [Collect(storeEach(c0, b[3].val)) EXCEPT
                             !.occupiedWeight = b[2].val],
                   err |-> "nil"]

----------------------------------------------------------------------------
(* The download job of package downloader                                  *)
(* (src/internal/fs/kernel_list_cache_test.go, lines 575-769).              *)
(*                                                                         *)
(* A Job holds its status, the list of its subscribers and a mutex.  Each  *)
(* subscriber owns a channel of capacity 1; the channels are heap objects  *)
(* kept here in the field chans, by the order in which subscribe made      *)
(* them.  Download and Cancel are the bodies the source has: both lock and *)
(* unlock job.mu and do nothing else.                                      *)

\* the largest offset a caller asks for
MaxOffset == 2
\* the most subscriptions made on one job
MaxSubscribers == 2

Offsets == 0..MaxOffset
\* the errors a download fails with; "nil" is the nil error
Errors == {"e1", "e2"}
\* a caller's context: still live, or cancelled
Contexts == {"live", "cancelled"}

NOT_STARTED == "NOT_STARTED"
DOWNLOADING == "DOWNLOADING"
COMPLETED == "COMPLETED"
FAILED == "FAILED"
CANCELLED == "CANCELLED"

JobStatus(name, err, offset) == [Name |-> name, Err |-> err, Offset |-> offset]
\* the zero value of JobStatus, what a named result holds until assigned
ZeroJobStatus == JobStatus("", "nil", 0)

jobSubscriber(notificationC, subscribedOffset) ==
    [notificationC |-> notificationC, subscribedOffset |-> subscribedOffset]

\* capacity of a subscriber's channel: make(chan JobStatus, 1)
ChanCap == 1
\* a channel as make returns it
NewChan == [buf |-> <<>>, closed |-> FALSE]

\* Job.init: NOT_STARTED, no subscribers, a context that is not cancelled
Job_init(jb) ==
    [jb EXCEPT !.status = JobStatus(NOT_STARTED, "nil", 0),
               !.subscribers = <<>>,
               !.cancelled = FALSE]

\* NewJob: the mutex is made, then init sets the mutable members
NewJob ==
    Job_init([status |-> ZeroJobStatus, subscribers |-> <<>>, cancelled |-> FALSE,
              chans |-> <<>>, mu |-> "unlocked"])

\* Cancel: job.mu.Lock(); defer job.mu.Unlock()
Cancel(jb) == jb

\* Download: job.mu.Lock(); defer job.mu.Unlock(); return.  The named result
\* jobStatus is never assigned.
Download(jb, ctx, offset, waitForDownload) ==
    [job |-> jb, jobStatus |-> ZeroJobStatus]

\* subscribe as it would be with PushFront for PushBack
subscribe_PushFront(jb, subscribedOffset) ==
    LET subscriberC == Len(jb.chans) + 1
    IN  [job |-> [jb EXCEPT !.chans = Append(@, NewChan),
                            !.subscribers =
                                <<jobSubscriber(subscriberC, subscribedOffset)>> \o @],
         notificationC |-> subscriberC]

\* subscribe: a new channel of capacity 1, a subscriber pushed at the back
subscribe(jb, subscribedOffset) ==
    LET subscriberC == Len(jb.chans) + 1
    IN  [job |-> [jb EXCEPT !.chans = Append(@, NewChan),
                            !.subscribers =
                                Append(@, jobSubscriber(subscriberC, subscribedOffset))],
         notificationC |-> subscriberC]

\* fire as it would be without job.subscribers.Remove(subItr)
fire_KeepsSubscriber(jb, i) ==
    LET ch == jb.subscribers[i].notificationC
    IN  IF jb.chans[ch].closed
        THEN [job |-> jb, outcome |-> "panicked"]
        ELSE IF Len(jb.chans[ch].buf) >= ChanCap
        THEN [job |-> jb, outcome |-> "blocked"]
        ELSE [job |-> [jb EXCEPT !.chans[ch].buf = Append(@, jb.status),
                                 !.chans[ch].closed = TRUE],
              outcome |-> "returned"]

\* the body of the loop of notifySubscribers for the subscriber at position
\* i, which is ready: send the status, close the channel, remove the
\* subscriber.  A send on a closed channel panics, a send on a full channel
\* that nobody reads blocks.
fire(jb, i) ==
    LET ch == jb.subscribers[i].notificationC
    IN  IF jb.chans[ch].closed
        THEN [job |-> jb, outcome |-> "panicked"]
        ELSE IF Len(jb.chans[ch].buf) >= ChanCap
        THEN [job |-> jb, outcome |-> "blocked"]
        ELSE [job |-> [jb EXCEPT !.chans[ch].buf = Append(@, jb.status),
                                 !.chans[ch].closed = TRUE,
                                 !.subscribers =
                                     SubSeq(@, 1, i - 1) \o SubSeq(@, i + 1, Len(@))],
              outcome |-> "returned"]

\* notifyFrom as it would be with > for >= in the test of the offset
RECURSIVE notifyFrom_Strict(_, _)
notifyFrom_Strict(jb, i) ==
    IF i > Len(jb.subscribers)
    THEN [job |-> jb, outcome |-> "returned", fired |-> <<>>]
    ELSE LET subItrValue == jb.subscribers[i]
         IN  IF \/ jb.status.Name = FAILED
                \/ jb.status.Name = CANCELLED
                \/ jb.status.Offset > subItrValue.subscribedOffset
             THEN LET f == fire(jb, i)
                  IN  IF f.outcome # "returned"
                      THEN [job |-> f.job, outcome |-> f.outcome, fired |-> <<>>]
                      ELSE LET r == notifyFrom_Strict(f.job, i)
                           IN  [r EXCEPT !.fired = <<subItrValue>> \o @]
             ELSE notifyFrom_Strict(jb, i + 1)

\* notifySubscribers, from the subscriber at position i on; outcome is
\* "returned", "blocked" or "panicked", fired the subscribers that were sent
\* the status, in the order of the sends
RECURSIVE notifyFrom(_, _)
notifyFrom(jb, i) ==
    IF i > Len(jb.subscribers)
    THEN [job |-> jb, outcome |-> "returned", fired |-> <<>>]
    ELSE LET subItrValue == jb.subscribers[i]
         IN  IF \/ jb.status.Name = FAILED
                \/ jb.status.Name = CANCELLED
                \/ jb.status.Offset >= subItrValue.subscribedOffset
             THEN LET f == fire(jb, i)
                  IN  IF f.outcome # "returned"
                      THEN [job |-> f.job, outcome |-> f.outcome, fired |-> <<>>]
                      ELSE LET r == notifyFrom(f.job, i)
                           IN  [r EXCEPT !.fired = <<subItrValue>> \o @]
             ELSE notifyFrom(jb, i + 1)

notifySubscribers(jb) == notifyFrom(jb, 1)

\* failWhileDownloading as it would be with the subscribers notified before
\* the status is set
failWhileDownloading_NotifyFirst(jb, downloadErr) ==
    LET r == notifySubscribers([jb EXCEPT !.mu = "locked"])
    IN  IF r.outcome = "returned"
        THEN [r EXCEPT !.job = [r.job EXCEPT !.mu = "unlocked",
                                             !.status.Err = downloadErr,
                                             !.status.Name = FAILED]]
        ELSE r

\* failWhileDownloading as it would be without the assignment to status.Err
failWhileDownloading_KeepsErr(jb, downloadErr) ==
    LET j1 == [jb EXCEPT !.mu = "locked", !.status.Name = FAILED]
        r == notifySubscribers(j1)
    IN  IF r.outcome = "returned"
        THEN [r EXCEPT !.job = [r.job EXCEPT !.mu = "unlocked"]]
        ELSE r

\* failWhileDownloading: Lock, set Err and Name, notify, Unlock.  The Unlock
\* is not deferred: it is reached only when notifySubscribers returns.
failWhileDownloading(jb, downloadErr) ==
    LET j1 == [jb EXCEPT !.mu = "locked",
                         !.status.Err = downloadErr,
                         !.status.Name = FAILED]
        r == notifySubscribers(j1)
    IN  IF r.outcome = "returned"
        THEN [r EXCEPT !.job = [r.job EXCEPT !.mu = "unlocked"]]
        ELSE r

\* the object a job downloads: its cache key, its generation and its size
JobKey == "A"
JobGeneration == 1
ObjectSize == MaxOffset

\* uint64(x) of an int64 x: the two are congruent modulo 2^64, so the
\* representative of the result is x, and a negative x stands for 2^64 + x
ToUint64(x) == x

\* data.FileInfo as a cache value: its fields, and w, what its Weight()
\* reports: the bytes of the object that are in the local file
FileInfo(key, objectGeneration, fileSize, offset) ==
    [w |-> offset, tag |-> objectGeneration, Key |-> key,
     ObjectGeneration |-> objectGeneration, FileSize |-> fileSize, Offset |-> offset]

\* updateFileInfoCache as it would be with the object's size for the offset
updateFileInfoCache_SizeAsOffset(jb, cc) ==
    LET updatedFileInfo ==
            FileInfo(JobKey, JobGeneration, ObjectSize, ObjectSize)
    IN  [insert |-> Insert(cc, JobKey, updatedFileInfo),
         updatedFileInfo |-> updatedFileInfo, err |-> "nil"]

\* updateFileInfoCache: the FileInfo of the job's object at the job's offset,
\* stored by Cache.Insert under the object's key
updateFileInfoCache(jb, cc) ==
    LET updatedFileInfo ==
            FileInfo(JobKey, JobGeneration, ObjectSize, ToUint64(jb.status.Offset))
    IN  [insert |-> Insert(cc, JobKey, updatedFileInfo),
         updatedFileInfo |-> updatedFileInfo, err |-> "nil"]

----------------------------------------------------------------------------
(* The directory listings of the mounted bucket.  The kernel keeps the     *)
(* listing the filesystem served for a directory and answers later         *)
(* listings from it while the filesystem lets it; the tests tell the two   *)
(* apart by changing the bucket behind the filesystem's back.  A file      *)
(* name file<n>.txt of explicitDir is the number n, and the clock counts   *)
(* the seconds since SetupTest set it.                                     *)

\* KernelListCacheTtlSeconds of the three suites
kernelListCacheTtlSeconds == 1000
ZeroTtl == 0
InfiniteTtl == 0 - 1
TtlChoices == {kernelListCacheTtlSeconds, ZeroTtl, InfiniteTtl}

\* the files a test may have in explicitDir, and the number of clock
\* advances and listings of one test
MaxFiles == 4
MaxAdvances == 2
MaxReads == 3
Files == 1..MaxFiles

\* the steps the tests advance the clock by
FiveYears == 157800000
Durations == {kernelListCacheTtlSeconds \div 2, kernelListCacheTtlSeconds + 1, FiveYears}

\* createFilesAndDirStructureInBucket: file1.txt and file2.txt
InitialFiles == {1, 2}

\* the names of a directory in the order a listing gives them
RECURSIVE Listing(_)
Listing(S) ==
    IF S = {} THEN <<>>
    ELSE LET first == CHOOSE n \in S : \A m \in S : n <= m
         IN  <<first>> \o Listing(S \ {first})

NoListing == [held |-> FALSE, names |-> <<>>, servedAt |-> 0]

\* SetupSuite and SetupTest: the mount with its ttl, the bucket, the clock
SetupTest(ttl) ==
    [ttl |-> ttl, now |-> 0, advances |-> 0, bucket |-> InitialFiles,
     kernel |-> NoListing, reads |-> <<>>, mounted |-> 0]

\* t.createObjects changes the bucket directly (t.deleteObject is deferred
\* to the end of the test, after its last listing)
createObjects(f, n) == [f EXCEPT !.bucket = @ \cup {n}]

\* cacheClock.AdvanceTime
AdvanceTime(f, d) == [f EXCEPT !.now = @ + d, !.advances = @ + 1]

CreateThroughMount_KeepsListing(f, n) ==
    [f EXCEPT !.bucket = @ \cup {n}, !.mounted = @ + 1]

\* a file created through the mount: the filesystem drops the listing the
\* kernel holds for the directory (mounted counts these changes)
CreateThroughMount(f, n) ==
    [f EXCEPT !.bucket = @ \cup {n}, !.kernel = NoListing, !.mounted = @ + 1]

\* the age of the listing the kernel holds
Age(f) == f.now - f.kernel.servedAt

\* may the kernel answer from the listing it holds?  Never with ttl 0,
\* always with a negative ttl, and with a positive ttl while the listing is
\* younger than ttl; at exactly ttl both answers are allowed
ReuseChoices_Never(f) == {FALSE}

ReuseChoices_WhenHeld(f) == {f.kernel.held}

ReuseChoices(f) ==
    IF ~f.kernel.held \/ f.ttl = ZeroTtl THEN {FALSE}
    ELSE IF f.ttl < 0 \/ Age(f) < f.ttl THEN {TRUE}
    ELSE IF Age(f) = f.ttl THEN {TRUE, FALSE}
    ELSE {FALSE}

\* one Readdirnames: the names it returned, who answered, when, what the
\* directory held then, and the changes made through the mount until then
Read(f, names, by) ==
    [names |-> names, by |-> by, at |-> f.now, content |-> Listing(f.bucket),
     mounted |-> f.mounted]

ReadDir_KeepsServedAt(f, reuse) ==
    IF reuse
    THEN [f EXCEPT !.reads = Append(@, Read(f, f.kernel.names, "kernel"))]
    ELSE LET names == Listing(f.bucket)
         IN  [f EXCEPT !.kernel = [held |-> TRUE, names |-> names,
                                   servedAt |-> IF f.kernel.held
                                                THEN f.kernel.servedAt ELSE f.now],
                       !.reads = Append(@, Read(f, names, "filesystem"))]

\* os.Open, Readdirnames(-1) and Close of explicitDir: answered from the
\* kernel's listing (reuse), or served by the filesystem from the bucket and
\* kept by the kernel from now on
ReadDir(f, reuse) ==
    IF reuse
    THEN [f EXCEPT !.reads = Append(@, Read(f, f.kernel.names, "kernel"))]
    ELSE LET names == Listing(f.bucket)
         IN  [f EXCEPT !.kernel = [held |-> TRUE, names |-> names, servedAt |-> f.now],
                       !.reads = Append(@, Read(f, names, "filesystem"))]

----------------------------------------------------------------------------
(* The state machine: one cache, its operations called one after another   *)

VARIABLES
    c,        \* the Cache
    last,     \* the last call: its name, arguments and outcome
    touched,  \* history: the keys now stored, most recently touched first
              \* (a touch is an Insert of the key or a LookUp hit on it)
    mu,       \* c.mu: "locked" or "unlocked" (a sync.Mutex records no owner)
    pc,       \* per thread: the statement it executes next
    loc,      \* per thread: the call it is in and its local variables
    calls,    \* per thread: the number of calls it has made
    job,      \* the download Job
    jlast,    \* the last call on the job: its name, arguments and outcome
    jhist,    \* history of the job: which calls were made on it so far
    fs        \* the mount under test: its ttl, the clock, the bucket, the
              \* listing the kernel holds, and the listings read so far

vars == <<c, last, touched, mu, pc, loc, calls, job, jlast, jhist, fs>>

Threads == {"t1", "t2"}

\* no element: a nil *list.Element
NoElem == <<"", 0>>

\* a thread that is in no call
Idle ==
    [op |-> "none", key |-> "", value |-> NilValue, e |-> NoElem,
     ekey |-> "", evalue |-> NilValue, max |-> 0, occ |-> 0, todo |-> <<>>,
     panicked |-> FALSE]

NoBlob == <<>>

Call(op, key, value) ==
    [op |-> op, key |-> key, value |-> value, ret |-> NilValue,
     evicted |-> <<>>, evictedKeys |-> <<>>, panicked |-> FALSE,
     midWeight |-> 0, mid |-> <<>>, blob |-> NoBlob, err |-> "nil",
     replaced |-> "nothing", before |-> <<>>]

Touch(t, key) == <<key>> \o SeqWithout(t, key)

Forget(t, keys) == SelectSeq(t, LAMBDA k : k \notin keys)

\* the value the cache holds under key, nil if it holds none
Stored(cc, key) ==
    IF key \in DOMAIN cc.index THEN cc.heap[cc.index[key]].Value ELSE NilValue

\* history: what became of the value an Insert found under its key
Replaced(cc, key, value, evicted) ==
    LET old == Stored(cc, key)
    IN  IF old = NilValue THEN "nothing"
        ELSE IF old = value THEN "same"
        ELSE IF old \in SeqRange(evicted) THEN "returned"
        ELSE "dropped"

\* One caller runs the operations one after another: each call locks, runs
\* and unlocks within its step, and no thread is left inside a call.
OneCaller == UNCHANGED <<mu, pc, loc, calls, job, jlast, jhist, fs>>

\* a call on the job and what it returned
JobCall(op) ==
    [op |-> op, ctx |-> "live", offset |-> 0, waitForDownload |-> FALSE,
     err |-> "nil", jobStatus |-> ZeroJobStatus, outcome |-> "returned",
     fired |-> <<>>, before |-> ZeroJobStatus]

\* the job as NewJob returns it, no call made on it yet
InitJobVars ==
    /\ job = NewJob
    /\ jlast = JobCall("NewJob")
    /\ jhist = [downloads |-> 0, cancels |-> 0]
    /\ fs = SetupTest(kernelListCacheTtlSeconds)

Init ==
    /\ \E maxWeight \in MaxWeightChoices : c = New(maxWeight)
    /\ last = Call("New", "", NilValue)
    /\ touched = <<>>
    /\ mu = "unlocked"
    /\ pc = [t \in Threads |-> "idle"]
    /\ loc = [t \in Threads |-> Idle]
    /\ calls = [t \in Threads |-> 0]
    /\ InitJobVars

InsertOp ==
    /\ OneCaller
    /\ \E key \in Keys, value \in Values \cup {NilValue} :
        \E r \in {Insert(c, key, value)} :
            /\ c' = r.c
            /\ last' = [Call("Insert", key, value) EXCEPT
                           !.evicted = r.evicted, !.evictedKeys = r.evictedKeys,
                           !.panicked = r.panicked,
                           !.midWeight = r.mid.occupiedWeight,
                           !.mid = EntriesOf(r.mid),
                           !.replaced = Replaced(c, key, value, r.evicted)]
            /\ touched' = IF value = NilValue
                          THEN touched
                          ELSE Forget(Touch(touched, key), SeqRange(r.evictedKeys))

EraseOp ==
    /\ OneCaller
    /\ \E key \in Keys :
        \E r \in {Erase(c, key)} :
            /\ c' = r.c
            /\ last' = [Call("Erase", key, NilValue) EXCEPT
                           !.ret = r.ret, !.panicked = r.panicked]
            /\ touched' = IF r.panicked THEN touched ELSE Forget(touched, {key})

LookUpOp ==
    /\ OneCaller
    /\ \E key \in Keys :
        \E r \in {LookUp(c, key)} :
            /\ c' = r.c
            /\ last' = [Call("LookUp", key, NilValue) EXCEPT !.ret = r.ret]
            /\ touched' = IF r.ret = NilValue THEN touched ELSE Touch(touched, key)

CheckInvariantsOp ==
    /\ OneCaller
    /\ last' = [Call("CheckInvariants", "", NilValue) EXCEPT
                   !.panicked = ~CheckInvariants(c)]
    /\ UNCHANGED <<c, touched>>

GobEncodeOp ==
    /\ OneCaller
    /\ last' = [Call("GobEncode", "", NilValue) EXCEPT !.blob = GobEncode(c)]
    /\ UNCHANGED <<c, touched>>

\* GobDecode of what the preceding GobEncode returned, or of a truncated copy
\* of it (n of its three messages)
GobDecodeOp ==
    /\ OneCaller
    /\ last.op = "GobEncode"
    /\ \E n \in 0..Len(last.blob) :
          \E r \in {GobDecode(c, SubSeq(last.blob, 1, n))} :
              /\ c' = r.c
              /\ last' = [Call("GobDecode", "", NilValue) EXCEPT
                             !.blob = SubSeq(last.blob, 1, n), !.err = r.err]
              /\ touched' = IF r.err = "decoding entries" THEN <<>> ELSE touched

Next ==
    \/ InsertOp
    \/ EraseOp
    \/ LookUpOp
    \/ CheckInvariantsOp
    \/ GobEncodeOp
    \/ GobDecodeOp

Spec == Init /\ [][Next]_vars

----------------------------------------------------------------------------
(* GobDecode of a stream that comes from outside.  GobDecode takes any     *)
(* []byte; a stream that decodes without error need not have been written  *)
(* by GobEncode of a cache, and its occupiedWeight is stored as it stands   *)
(* (line 289).                                                             *)

RECURSIVE SeqsUpTo(_, _)
SeqsUpTo(S, n) ==
    IF n = 0
    THEN {<<>>}
    ELSE SeqsUpTo(S, n - 1) \cup
         {Append(s, x) : s \in {q \in SeqsUpTo(S, n - 1) : Len(q) = n - 1}, x \in S}

\* the well-formed streams of the model: any maxWeight, any occupiedWeight,
\* any slice of entries
Streams ==
    {<< [kind |-> "uint64", val |-> m], [kind |-> "uint64", val |-> o],
        [kind |-> "entries", val |-> es] >> :
        m \in MaxWeightChoices, o \in Weights,
        es \in SeqsUpTo({Entry(k, v) : k \in ConcKeys, v \in ConcValues},
                        MaxStreamEntries)}

GobDecodeStreamOp ==
    /\ OneCaller
    /\ \E b \in Streams :
          \E r \in {GobDecode(c, b)} :
              /\ c' = r.c
              /\ last' = [Call("GobDecode", "", NilValue) EXCEPT
                             !.blob = b, !.err = r.err]
              /\ touched' = KeysOf(r.c)

\* the streams that end early: none, one or two of the three messages
TruncatedStreams ==
    {<<>>}
    \cup {<< [kind |-> "uint64", val |-> m] >> : m \in MaxWeightChoices}
    \cup {<< [kind |-> "uint64", val |-> m], [kind |-> "uint64", val |-> o] >> :
              m \in MaxWeightChoices, o \in Weights}

\* GobDecode of a stream that ends early; before is the maxWeight and the
\* number of entries the receiver had
GobDecodeTruncatedOp ==
    /\ OneCaller
    /\ \E b \in TruncatedStreams :
          \E r \in {GobDecode(c, b)} :
              /\ c' = r.c
              /\ last' = [Call("GobDecode", "", NilValue) EXCEPT
                             !.blob = b, !.err = r.err,
                             !.before = <<c.maxWeight, Len(c.entries)>>]
              /\ touched' = KeysOf(r.c)

NextStream ==
    \/ GobDecodeStreamOp
    \/ CheckInvariantsOp

SpecStream == Init /\ [][NextStream]_vars

\* a cache that is filled by Insert, encoded, and the receiver of streams
\* that end early
NextGob ==
    \/ InsertOp
    \/ GobEncodeOp
    \/ GobDecodeOp
    \/ GobDecodeTruncatedOp

SpecGob == Init /\ [][NextGob]_vars

----------------------------------------------------------------------------
(* Several callers: each thread runs one call at a time, statement by      *)
(* statement.  Insert, Erase, LookUp and GobEncode lock c.mu first and      *)
(* unlock it (deferred) on the way out; CheckInvariants and GobDecode      *)
(* never touch c.mu.                                                       *)


\* the streams the threads decode: the encodings of an empty cache and of a
\* cache that holds one entry
ConcBlobs ==
    {GobEncode(New(SmallMaxWeight)),
     GobEncode(Insert(New(SmallMaxWeight), "A", [w |-> 1, tag |-> 1]).c)}

InitConc ==
    /\ c = New(SmallMaxWeight)
    /\ last = Call("New", "", NilValue)
    /\ touched = <<>>
    /\ mu = "unlocked"
    /\ pc = [t \in Threads |-> "idle"]
    /\ loc = [t \in Threads |-> Idle]
    /\ calls = [t \in Threads |-> 0]
    /\ InitJobVars

\* an unlock of an unlocked sync.Mutex is a fatal error: the process is gone
Running == \A t \in Threads : pc[t] # "fatal"

\* thread t goes to statement l with locals r
Goto(t, l, r) ==
    /\ pc' = [pc EXCEPT ![t] = l]
    /\ loc' = [loc EXCEPT ![t] = r]

\* an element stays allocated while the list, the index or a local variable
\* of a thread refers to it
Reachable(cc, locs) ==
    LET live == SeqRange(cc.entries) \cup {cc.index[k] : k \in DOMAIN cc.index}
                \cup {locs[t].e : t \in Threads}
    IN  [cc EXCEPT !.heap = [e \in DOMAIN cc.heap \cap live |-> cc.heap[e]]]

Frame == UNCHANGED <<last, touched, job, jlast, jhist, fs>>

\* a statement inside a call
Step == Running /\ UNCHANGED calls

\* thread t enters a call
Enter(t) ==
    /\ Running /\ pc[t] = "idle"
    /\ calls[t] < MaxCalls
    /\ calls' = [calls EXCEPT ![t] = @ + 1]

\* CallInsert as it would be without the nil check of line 143: the nil value
\* goes on to Lock and into the body
CallInsert_NoNilCheck(t) ==
    /\ Enter(t)
    /\ \E key \in ConcKeys, value \in ConcValues \cup {NilValue} :
          Goto(t, "ins_lock", [Idle EXCEPT !.op = "Insert", !.key = key,
                                           !.value = value])
    /\ UNCHANGED <<c, mu>> /\ Frame

\* Insert, lines 143-145: a nil value panics before c.mu is locked
CallInsert(t) ==
    /\ Enter(t)
    /\ \E key \in ConcKeys, value \in ConcValues \cup {NilValue} :
          IF value = NilValue
          THEN Goto(t, "done", [Idle EXCEPT !.op = "Insert", !.key = key,
                                            !.panicked = TRUE])
          ELSE Goto(t, "ins_lock", [Idle EXCEPT !.op = "Insert", !.key = key,
                                                !.value = value])
    /\ UNCHANGED <<c, mu>> /\ Frame

CallErase(t) ==
    /\ Enter(t)
    /\ \E key \in ConcKeys :
          Goto(t, "er_lock", [Idle EXCEPT !.op = "Erase", !.key = key])
    /\ UNCHANGED <<c, mu>> /\ Frame

CallLookUp(t) ==
    /\ Enter(t)
    /\ \E key \in ConcKeys :
          Goto(t, "lk_lock", [Idle EXCEPT !.op = "LookUp", !.key = key])
    /\ UNCHANGED <<c, mu>> /\ Frame

CallCheckInvariants(t) ==
    /\ Enter(t)
    /\ Goto(t, "ci_max", [Idle EXCEPT !.op = "CheckInvariants"])
    /\ UNCHANGED <<c, mu>> /\ Frame

CallGobEncode(t) ==
    /\ Enter(t)
    /\ Goto(t, "ge_lock", [Idle EXCEPT !.op = "GobEncode"])
    /\ UNCHANGED <<c, mu>> /\ Frame

\* GobDecode decodes maxWeight and occupiedWeight into locals first
CallGobDecode(t) ==
    /\ Enter(t)
    /\ \E b \in ConcBlobs :
          Goto(t, "gd_new", [Idle EXCEPT !.op = "GobDecode", !.max = b[1].val,
                                         !.occ = b[2].val, !.todo = b[3].val])
    /\ UNCHANGED <<c, mu>> /\ Frame

\* c.mu.Lock()
Lock(t) ==
    /\ Step /\ pc[t] \in {"ins_lock", "er_lock", "lk_lock", "ge_lock"}
    /\ mu = "unlocked"
    /\ mu' = "locked"
    /\ pc' = [pc EXCEPT ![t] = CASE pc[t] = "ins_lock" -> "ins_find"
                                 [] pc[t] = "er_lock" -> "er_find"
                                 [] pc[t] = "lk_lock" -> "lk_find"
                                 [] pc[t] = "ge_lock" -> "ge_read"]
    /\ UNCHANGED <<c, loc>> /\ Frame

\* the deferred c.mu.Unlock()
Unlock(t) ==
    /\ Step /\ pc[t] = "unlock"
    /\ IF mu = "locked"
       THEN mu' = "unlocked" /\ pc' = [pc EXCEPT ![t] = "done"]
       ELSE mu' = mu /\ pc' = [pc EXCEPT ![t] = "fatal"]
    /\ UNCHANGED <<c, loc>> /\ Frame

\* the call is over; the caller goes on
Return(t) ==
    /\ Step /\ pc[t] = "done"
    /\ Goto(t, "idle", Idle)
    /\ c' = Reachable(c, loc')
    /\ UNCHANGED mu /\ Frame

\* Insert, line 150: e, ok := c.index[key]
InsFind(t) ==
    /\ Step /\ pc[t] = "ins_find"
    /\ IF loc[t].key \in DOMAIN c.index
       THEN Goto(t, "ins_upd_sub", [loc[t] EXCEPT !.e = c.index[loc[t].key]])
       ELSE Goto(t, "ins_push", loc[t])
    /\ UNCHANGED <<c, mu>> /\ Frame

\* line 153: c.occupiedWeight -= e.Value.(entry).Value.Weight()
InsUpdSub(t) ==
    /\ Step /\ pc[t] = "ins_upd_sub"
    /\ c' = [c EXCEPT !.occupiedWeight = @ - Weight(c.heap[loc[t].e].Value)]
    /\ Goto(t, "ins_upd_add", loc[t])
    /\ UNCHANGED mu /\ Frame

\* line 154: c.occupiedWeight += value.Weight()
InsUpdAdd(t) ==
    /\ Step /\ pc[t] = "ins_upd_add"
    /\ c' = [c EXCEPT !.occupiedWeight = @ + Weight(loc[t].value)]
    /\ Goto(t, "ins_upd_set", loc[t])
    /\ UNCHANGED mu /\ Frame

\* line 155: e.Value = entry{key, value}
InsUpdSet(t) ==
    /\ Step /\ pc[t] = "ins_upd_set"
    /\ c' = [c EXCEPT !.heap = [@ EXCEPT ![loc[t].e] = Entry(loc[t].key, loc[t].value)]]
    /\ Goto(t, "ins_upd_move", loc[t])
    /\ UNCHANGED mu /\ Frame

\* line 156: c.entries.MoveToFront(e)
InsUpdMove(t) ==
    /\ Step /\ pc[t] = "ins_upd_move"
    /\ c' = MoveToFront(c, loc[t].e)
    /\ Goto(t, "ins_loop", loc[t])
    /\ UNCHANGED mu /\ Frame

\* line 159: e := c.entries.PushFront(entry{key, value})
InsPush(t) ==
    /\ Step /\ pc[t] = "ins_push"
    /\ \E e \in {NewElement(c, loc[t].key)} :
          /\ c' = PushFront(c, e, Entry(loc[t].key, loc[t].value))
          /\ Goto(t, "ins_index", [loc[t] EXCEPT !.e = e])
    /\ UNCHANGED mu /\ Frame

\* line 160: c.index[key] = e
InsIndex(t) ==
    /\ Step /\ pc[t] = "ins_index"
    /\ c' = [c EXCEPT !.index = MapPut(@, loc[t].key, loc[t].e)]
    /\ Goto(t, "ins_add", loc[t])
    /\ UNCHANGED mu /\ Frame

\* line 161: c.occupiedWeight += value.Weight()
InsAdd(t) ==
    /\ Step /\ pc[t] = "ins_add"
    /\ c' = [c EXCEPT !.occupiedWeight = @ + Weight(loc[t].value)]
    /\ Goto(t, "ins_loop", loc[t])
    /\ UNCHANGED mu /\ Frame

\* line 166: for c.occupiedWeight > c.maxWeight
InsLoop(t) ==
    /\ Step /\ pc[t] = "ins_loop"
    /\ IF Above(c.occupiedWeight, c.maxWeight)
       THEN Goto(t, "ev_back", loc[t])
       ELSE Goto(t, "unlock", loc[t])
    /\ UNCHANGED <<c, mu>> /\ Frame

\* evictOne, lines 121 to 124: e := c.entries.Back(), its key and value; on
\* an empty list e is nil and e.Value panics
EvBack(t) ==
    /\ Step /\ pc[t] = "ev_back"
    /\ IF c.entries = <<>>
       THEN Goto(t, "unlock", [loc[t] EXCEPT !.panicked = TRUE])
       ELSE LET e == c.entries[Len(c.entries)]
            IN  Goto(t, "ev_sub", [loc[t] EXCEPT !.e = e, !.ekey = c.heap[e].Key,
                                                 !.evalue = c.heap[e].Value])
    /\ UNCHANGED <<c, mu>> /\ Frame

\* line 125: c.occupiedWeight -= evictedEntry.Weight()
EvSub(t) ==
    /\ Step /\ pc[t] = "ev_sub"
    /\ c' = [c EXCEPT !.occupiedWeight = @ - Weight(loc[t].evalue)]
    /\ Goto(t, "ev_remove", loc[t])
    /\ UNCHANGED mu /\ Frame

\* line 127: c.entries.Remove(e)
EvRemove(t) ==
    /\ Step /\ pc[t] = "ev_remove"
    /\ c' = ListRemove(c, loc[t].e)
    /\ Goto(t, "ev_delete", loc[t])
    /\ UNCHANGED mu /\ Frame

\* line 128: delete(c.index, key)
EvDelete(t) ==
    /\ Step /\ pc[t] = "ev_delete"
    /\ Goto(t, "ins_loop", [loc[t] EXCEPT !.e = NoElem, !.ekey = "", !.evalue = NilValue])
    /\ c' = Reachable([c EXCEPT !.index = MapDel(@, loc[t].ekey)], loc')
    /\ UNCHANGED mu /\ Frame

\* Erase, lines 178 to 184: return when the key is absent; else
\* value.Weight() on the nil result panics
EraseFind(t) ==
    /\ Step /\ pc[t] = "er_find"
    /\ IF loc[t].key \notin DOMAIN c.index
       THEN Goto(t, "unlock", loc[t])
       ELSE Goto(t, "unlock", [loc[t] EXCEPT !.panicked = TRUE])
    /\ UNCHANGED <<c, mu>> /\ Frame

\* LookUp, lines 199 to 202
LookUpFind(t) ==
    /\ Step /\ pc[t] = "lk_find"
    /\ IF loc[t].key \notin DOMAIN c.index
       THEN Goto(t, "unlock", loc[t])
       ELSE Goto(t, "lk_move", [loc[t] EXCEPT !.e = c.index[loc[t].key]])
    /\ UNCHANGED <<c, mu>> /\ Frame

\* line 205: c.entries.MoveToFront(e)
LookUpMove(t) ==
    /\ Step /\ pc[t] = "lk_move"
    /\ c' = MoveToFront(c, loc[t].e)
    /\ Goto(t, "unlock", loc[t])
    /\ UNCHANGED mu /\ Frame

\* GobEncode, lines 226 to 252: reads the list and the two weights
GobEncodeRead(t) ==
    /\ Step /\ pc[t] = "ge_read"
    /\ Goto(t, "unlock", [loc[t] EXCEPT !.todo = GobEncode(c)[3].val])
    /\ UNCHANGED <<c, mu>> /\ Frame

\* CheckInvariants, line 86
CheckMax(t) ==
    /\ Step /\ pc[t] = "ci_max"
    /\ IF Above(c.maxWeight, 0)
       THEN Goto(t, "ci_occ", loc[t])
       ELSE Goto(t, "done", [loc[t] EXCEPT !.panicked = TRUE])
    /\ UNCHANGED <<c, mu>> /\ Frame

\* line 91
CheckOccupied(t) ==
    /\ Step /\ pc[t] = "ci_occ"
    /\ IF ~Above(c.occupiedWeight, c.maxWeight)
       THEN Goto(t, "ci_len", loc[t])
       ELSE Goto(t, "done", [loc[t] EXCEPT !.panicked = TRUE])
    /\ UNCHANGED <<c, mu>> /\ Frame

\* line 106
CheckLen(t) ==
    /\ Step /\ pc[t] = "ci_len"
    /\ IF Len(c.entries) = Cardinality(DOMAIN c.index)
       THEN Goto(t, "ci_index", loc[t])
       ELSE Goto(t, "done", [loc[t] EXCEPT !.panicked = TRUE])
    /\ UNCHANGED <<c, mu>> /\ Frame

\* lines 113 to 117
CheckIndex(t) ==
    /\ Step /\ pc[t] = "ci_index"
    /\ Goto(t, "done",
            [loc[t] EXCEPT !.panicked =
                ~(\A i \in 1..Len(c.entries) :
                     LET k == c.heap[c.entries[i]].Key
                     IN  k \in DOMAIN c.index /\ c.index[k] = c.entries[i])])
    /\ UNCHANGED <<c, mu>> /\ Frame

\* GobDecode, line 274: *c = New(maxWeight) overwrites every field of the
\* cache, the mutex included
DecodeNew(t) ==
    /\ Step /\ pc[t] = "gd_new"
    /\ c' = Reachable([New(loc[t].max) EXCEPT !.heap = c.heap], loc)
    /\ mu' = "unlocked"
    /\ Goto(t, "gd_push", loc[t])
    /\ Frame

\* line 285: e := c.entries.PushBack(entry), for each decoded entry
DecodePush(t) ==
    /\ Step /\ pc[t] = "gd_push"
    /\ IF loc[t].todo = <<>>
       THEN c' = c /\ Goto(t, "gd_occ", loc[t])
       ELSE \E e \in {NewElement(c, Head(loc[t].todo).Key)} :
               /\ c' = PushBack(c, e, Head(loc[t].todo))
               /\ Goto(t, "gd_index", [loc[t] EXCEPT !.e = e])
    /\ UNCHANGED mu /\ Frame

\* line 286: c.index[entry.Key] = e
DecodeIndex(t) ==
    /\ Step /\ pc[t] = "gd_index"
    /\ Goto(t, "gd_push", [loc[t] EXCEPT !.e = NoElem, !.todo = Tail(@)])
    /\ c' = Reachable([c EXCEPT !.index = MapPut(@, Head(loc[t].todo).Key, loc[t].e)], loc')
    /\ UNCHANGED mu /\ Frame

\* line 289: c.occupiedWeight = occupiedWeight
DecodeOccupied(t) ==
    /\ Step /\ pc[t] = "gd_occ"
    /\ c' = [c EXCEPT !.occupiedWeight = loc[t].occ]
    /\ Goto(t, "done", loc[t])
    /\ UNCHANGED mu /\ Frame

NextConc ==
    \E t \in Threads :
        \/ CallInsert(t) \/ CallErase(t) \/ CallLookUp(t)
        \/ CallCheckInvariants(t) \/ CallGobEncode(t) \/ CallGobDecode(t)
        \/ Lock(t) \/ Unlock(t) \/ Return(t)
        \/ InsFind(t) \/ InsUpdSub(t) \/ InsUpdAdd(t) \/ InsUpdSet(t) \/ InsUpdMove(t)
        \/ InsPush(t) \/ InsIndex(t) \/ InsAdd(t) \/ InsLoop(t)
        \/ EvBack(t) \/ EvSub(t) \/ EvRemove(t) \/ EvDelete(t)
        \/ EraseFind(t) \/ LookUpFind(t) \/ LookUpMove(t) \/ GobEncodeRead(t)
        \/ CheckMax(t) \/ CheckOccupied(t) \/ CheckLen(t) \/ CheckIndex(t)
        \/ DecodeNew(t) \/ DecodePush(t) \/ DecodeIndex(t) \/ DecodeOccupied(t)

SpecConc == InitConc /\ [][NextConc]_vars

----------------------------------------------------------------------------
(* The job's state machine: one job, the calls on it one after another.    *)
(* Every call runs under job.mu from its Lock to its Unlock, so a call is  *)
(* one step; a call finds the mutex free unless an earlier call never      *)
(* reached its Unlock.  subscribe and notifySubscribers require the lock:  *)
(* their caller takes it around the call.                                  *)

\* the number of calls the history counts up to
MaxCounted == 2

Counted(n) == IF n < MaxCounted THEN n + 1 ELSE n

CacheIdle == UNCHANGED <<c, last, touched, mu, pc, loc, calls, fs>>

InitJob ==
    /\ c = New(LargeMaxWeight)
    /\ last = Call("New", "", NilValue)
    /\ touched = <<>>
    /\ mu = "unlocked"
    /\ pc = [t \in Threads |-> "idle"]
    /\ loc = [t \in Threads |-> Idle]
    /\ calls = [t \in Threads |-> 0]
    /\ InitJobVars

DownloadOp ==
    /\ CacheIdle
    /\ job.mu = "unlocked"
    /\ \E ctx \in Contexts, offset \in Offsets, waitForDownload \in BOOLEAN :
        \E r \in {Download(job, ctx, offset, waitForDownload)} :
            /\ job' = r.job
            /\ jlast' = [JobCall("Download") EXCEPT
                            !.ctx = ctx, !.offset = offset,
                            !.waitForDownload = waitForDownload,
                            !.jobStatus = r.jobStatus]
            /\ jhist' = [jhist EXCEPT !.downloads = Counted(@), !.cancels = 0]

CancelOp ==
    /\ CacheIdle
    /\ job.mu = "unlocked"
    /\ job' = Cancel(job)
    /\ jlast' = JobCall("Cancel")
    /\ jhist' = [jhist EXCEPT !.cancels = Counted(@)]

SubscribeOp ==
    /\ CacheIdle
    /\ job.mu = "unlocked"
    /\ Len(job.chans) < MaxSubscribers
    /\ \E subscribedOffset \in Offsets :
        \E r \in {subscribe(job, subscribedOffset)} :
            /\ job' = r.job
            /\ jlast' = [JobCall("subscribe") EXCEPT !.offset = subscribedOffset]
            /\ jhist' = [jhist EXCEPT !.cancels = 0]

NotifySubscribersOp ==
    /\ CacheIdle
    /\ job.mu = "unlocked"
    /\ \E r \in {notifySubscribers([job EXCEPT !.mu = "locked"])} :
            /\ job' = IF r.outcome = "returned"
                      THEN [r.job EXCEPT !.mu = "unlocked"]
                      ELSE r.job
            /\ jlast' = [JobCall("notifySubscribers") EXCEPT
                            !.outcome = r.outcome, !.fired = r.fired,
                            !.before = job.status]
            /\ jhist' = [jhist EXCEPT !.cancels = 0]

FailWhileDownloadingOp ==
    /\ CacheIdle
    /\ job.mu = "unlocked"
    /\ \E downloadErr \in Errors :
        \E r \in {failWhileDownloading(job, downloadErr)} :
            /\ job' = r.job
            /\ jlast' = [JobCall("failWhileDownloading") EXCEPT
                            !.err = downloadErr, !.outcome = r.outcome,
                            !.fired = r.fired, !.before = job.status]
            /\ jhist' = [jhist EXCEPT !.cancels = 0]

NextJob ==
    \/ DownloadOp
    \/ CancelOp
    \/ SubscribeOp
    \/ NotifySubscribersOp
    \/ FailWhileDownloadingOp

SpecJob == InitJob /\ [][NextJob]_vars

\* the callers never stop calling: as long as a call can be made, one is made
SpecJobLive == SpecJob /\ WF_vars(NextJob)

\* The methods of Job applied to a job in any status.  The status is what
\* the download has written into the job by the time of a call; the methods
\* read it as they find it, whatever name and offset it holds.
Statuses ==
    {JobStatus(NOT_STARTED, "nil", 0)}
    \cup {JobStatus(name, "nil", offset) :
              name \in {DOWNLOADING, COMPLETED, CANCELLED}, offset \in Offsets}
    \cup {JobStatus(FAILED, err, offset) : err \in Errors, offset \in Offsets}

InitJobStates ==
    /\ c = New(LargeMaxWeight)
    /\ last = Call("New", "", NilValue)
    /\ touched = <<>>
    /\ mu = "unlocked"
    /\ pc = [t \in Threads |-> "idle"]
    /\ loc = [t \in Threads |-> Idle]
    /\ calls = [t \in Threads |-> 0]
    /\ \E status \in Statuses : job = [NewJob EXCEPT !.status = status]
    /\ jlast = JobCall("NewJob")
    /\ jhist = [downloads |-> 0, cancels |-> 0]
    /\ fs = SetupTest(kernelListCacheTtlSeconds)

SpecJobStates == InitJobStates /\ [][NextJob]_vars

----------------------------------------------------------------------------
(* The job and the file-info cache it writes to.  The cache holds the      *)
(* FileInfo of the job's object under JobKey next to the entries of other  *)
(* objects, which its other users insert, look up and erase.               *)

\* a cache that holds less than the object: a job offset can outweigh it
UnitMaxWeight == 1

JobIdle == UNCHANGED <<mu, pc, loc, calls, job, jhist, fs>>

\* history: the key whose Insert, the call before this one, evicted the
\* job's entry
EvictedBy(call) ==
    IF call.op = "Insert" /\ JobKey \in SeqRange(call.evictedKeys)
    THEN <<call.key>>
    ELSE <<>>

\* the caller holds job.mu around the call
UpdateFileInfoCacheOp ==
    /\ JobIdle
    /\ job.mu = "unlocked"
    /\ \E r \in {updateFileInfoCache(job, c)} :
          /\ c' = r.insert.c
          /\ last' = [Call("Insert", JobKey, r.updatedFileInfo) EXCEPT
                         !.evicted = r.insert.evicted,
                         !.evictedKeys = r.insert.evictedKeys,
                         !.panicked = r.insert.panicked,
                         !.midWeight = r.insert.mid.occupiedWeight,
                         !.mid = EntriesOf(r.insert.mid),
                         !.replaced = Replaced(c, JobKey, r.updatedFileInfo,
                                               r.insert.evicted),
                         !.before = EvictedBy(last)]
          /\ touched' = Forget(Touch(touched, JobKey), SeqRange(r.insert.evictedKeys))
          /\ jlast' = [JobCall("updateFileInfoCache") EXCEPT !.err = r.err,
                                                             !.before = job.status]

InitJobCacheOf(maxWeight) ==
    /\ c = New(maxWeight)
    /\ last = Call("New", "", NilValue)
    /\ touched = <<>>
    /\ mu = "unlocked"
    /\ pc = [t \in Threads |-> "idle"]
    /\ loc = [t \in Threads |-> Idle]
    /\ calls = [t \in Threads |-> 0]
    /\ \E offset \in Offsets :
          job = [NewJob EXCEPT !.status = JobStatus(DOWNLOADING, "nil", offset)]
    /\ jlast = JobCall("NewJob")
    /\ jhist = [downloads |-> 0, cancels |-> 0]
    /\ fs = SetupTest(kernelListCacheTtlSeconds)

InitJobCache == InitJobCacheOf(SmallMaxWeight)

\* a file-info cache smaller than the object the job downloads
InitSmallCache == InitJobCacheOf(UnitMaxWeight)

NextJobCache ==
    \/ UpdateFileInfoCacheOp
    \/ InsertOp
    \/ EraseOp
    \/ LookUpOp

SpecJobCache == InitJobCache /\ [][NextJobCache]_vars

SpecSmallCache == InitSmallCache /\ [][NextJobCache]_vars

----------------------------------------------------------------------------
(* The listing tests: one mount per ttl, and the steps of a test in any    *)
(* order: objects created in the bucket, the clock advanced,               *)
(* a file created through the mount, explicitDir listed.                   *)

ListOnly == UNCHANGED <<c, last, touched, mu, pc, loc, calls, job, jlast, jhist>>

InitList ==
    /\ c = New(LargeMaxWeight)
    /\ last = Call("New", "", NilValue)
    /\ touched = <<>>
    /\ mu = "unlocked"
    /\ pc = [t \in Threads |-> "idle"]
    /\ loc = [t \in Threads |-> Idle]
    /\ calls = [t \in Threads |-> 0]
    /\ job = NewJob
    /\ jlast = JobCall("NewJob")
    /\ jhist = [downloads |-> 0, cancels |-> 0]
    /\ \E ttl \in TtlChoices : fs = SetupTest(ttl)

CreateObjectsOp ==
    /\ ListOnly
    /\ \E n \in Files \ fs.bucket : fs' = createObjects(fs, n)

AdvanceTimeOp ==
    /\ ListOnly
    /\ fs.advances < MaxAdvances
    /\ \E d \in Durations : fs' = AdvanceTime(fs, d)

CreateThroughMountOp ==
    /\ ListOnly
    /\ \E n \in Files \ fs.bucket : fs' = CreateThroughMount(fs, n)

ReadDirOp ==
    /\ ListOnly
    /\ Len(fs.reads) < MaxReads
    /\ \E reuse \in ReuseChoices(fs) : fs' = ReadDir(fs, reuse)

NextList ==
    \/ CreateObjectsOp
    \/ AdvanceTimeOp
    \/ CreateThroughMountOp
    \/ ReadDirOp

SpecList == InitList /\ [][NextList]_vars

----------------------------------------------------------------------------
(* Properties                                                              *)

\* the value the index reaches for key k
StoredValue(cc, k) == cc.heap[cc.index[k]].Value

Reverse(s) == [i \in 1..Len(s) |-> s[Len(s) + 1 - i]]

\* the last n elements of s
Suffix(s, n) == SubSeq(s, Len(s) - n + 1, Len(s))

\* the first Len(s) - n elements of s
Prefix(s, n) == SubSeq(s, 1, Len(s) - n)

InsertReturned == last'.op = "Insert" /\ ~last'.panicked

\* C1: for a cache created with maxWeight > 0, after every operation
\* occupiedWeight is the sum of Weight() over the stored entries and is at
\* most maxWeight.
C1_WeightInvariant ==
    c.maxWeight > 0 =>
        /\ c.occupiedWeight = SumWeights(EntriesOf(c))
        /\ c.occupiedWeight <= c.maxWeight

\* an Insert has returned after evicting, and left a cache filled to its
\* maxWeight
C1_Witness ==
    /\ c.maxWeight > 0
    /\ last.op = "Insert" /\ ~last.panicked
    /\ last.evicted # <<>>
    /\ Len(c.entries) >= 2
    /\ c.occupiedWeight = c.maxWeight

\* C2: eviction is strictly least-recently-used.  With t the stored keys in
\* order of their last touch (Insert of the key or LookUp hit) with the
\* inserted key touched now, an Insert evicts the oldest keys of t, oldest
\* first, and keeps the others; with maxWeight 10 and A, B of weight 4, an
\* Insert of C with weight 4 evicts exactly A when B was touched last and
\* exactly B when A was touched last.
C2_StrictLRU ==
    [][InsertReturned =>
        LET t == Touch(touched, last'.key)
            n == Len(last'.evictedKeys)
        IN  /\ n <= Len(t)
            /\ last'.evictedKeys = Reverse(Suffix(t, n))
            /\ KeysOf(c') = Prefix(t, n)
            /\ ( /\ c.maxWeight = 10
                 /\ DOMAIN c.index = {"A", "B"}
                 /\ Weight(StoredValue(c, "A")) = 4
                 /\ Weight(StoredValue(c, "B")) = 4
                 /\ last'.key = "C" /\ Weight(last'.value) = 4 )
               => /\ touched = <<"B", "A">> =>
                        /\ last'.evictedKeys = <<"A">>
                        /\ last'.evicted = <<StoredValue(c, "A")>>
                  /\ touched = <<"A", "B">> =>
                        /\ last'.evictedKeys = <<"B">>
                        /\ last'.evicted = <<StoredValue(c, "B")>>
    ]_vars

\* C was inserted with weight 4 into a cache of maxWeight 10 where A had been
\* touched after B: B is the evicted key and A stays
C2_Witness ==
    /\ c.maxWeight = 10
    /\ last.op = "Insert" /\ last.key = "C" /\ Weight(last.value) = 4
    /\ last.evictedKeys = <<"B">>
    /\ KeysOf(c) = <<"C", "A">>
    /\ Weight(StoredValue(c, "A")) = 4

\* the recency list as it should be after the update of Insert and before its
\* eviction loop: the new entry first, then the other entries in their order
ExpectedMid(cc, key, value) ==
    <<Entry(key, value)>> \o SelectSeq(EntriesOf(cc), LAMBDA ent : ent.Key # key)

\* C3: Insert evicts from the least-recently-used end, one entry at a time,
\* until occupiedWeight <= maxWeight and no further; it returns exactly the
\* values it removed, least recently used first, and nothing when no eviction
\* is needed.
C3_EvictUntilFits ==
    [][InsertReturned =>
        LET m == ExpectedMid(c, last'.key, last'.value)
            n == Len(last'.evicted)
        IN  /\ n <= Len(m)
            /\ last'.evicted = [i \in 1..n |-> m[Len(m) + 1 - i].Value]
            /\ EntriesOf(c') = Prefix(m, n)
            /\ c'.occupiedWeight <= c'.maxWeight
            /\ n > 0 => c'.occupiedWeight + Weight(last'.evicted[n]) > c'.maxWeight
            /\ SumWeights(m) <= c.maxWeight => last'.evicted = <<>>
    ]_vars

\* an Insert that had to evict two entries and kept the third
C3_Witness ==
    /\ last.op = "Insert" /\ ~last.panicked
    /\ Len(last.evicted) = 2
    /\ Len(c.entries) = 1

\* C4: Insert on a key already present replaces the stored value, changes
\* occupiedWeight by (new weight - old weight) before any eviction, keeps the
\* number of entries and makes the key the most recently used.
C4_Overwrite ==
    [][(InsertReturned /\ last'.key \in DOMAIN c.index) =>
        /\ last'.midWeight =
              (c.occupiedWeight - Weight(StoredValue(c, last'.key))) + Weight(last'.value)
        /\ Len(last'.mid) = Len(c.entries)
        /\ Head(last'.mid) = Entry(last'.key, last'.value)
        /\ last'.key \in DOMAIN c'.index =>
              /\ StoredValue(c', last'.key) = last'.value
              /\ Head(KeysOf(c')) = last'.key
        /\ last'.key \notin DOMAIN c'.index => last'.key \in SeqRange(last'.evictedKeys)
    ]_vars

\* the least recently used of three keys was overwritten by a value of
\* another weight, and is now the most recently used
C4_Witness ==
    /\ last.op = "Insert" /\ ~last.panicked
    /\ Len(last.mid) = 3
    /\ Len(c.entries) = 3
    /\ last.midWeight = c.occupiedWeight
    /\ last.key = "A" /\ touched = <<"A", "C", "B">>
    /\ StoredValue(c, "A") = last.value

\* C5 (as claimed): Erase of a key that is present returns the stored value,
\* removes the key from the index and the recency list and lowers
\* occupiedWeight by that value's weight; a LookUp of the key then misses.
C5_ErasePresent ==
    [][(last'.op = "Erase" /\ last'.key \in DOMAIN c.index) =>
        /\ ~last'.panicked
        /\ last'.ret = StoredValue(c, last'.key)
        /\ last'.key \notin DOMAIN c'.index
        /\ last'.key \notin SeqRange(KeysOf(c'))
        /\ c'.occupiedWeight = c.occupiedWeight - Weight(StoredValue(c, last'.key))
        /\ LookUp(c', last'.key).ret = NilValue
    ]_vars

\* C6: Erase of a key that is absent returns empty and leaves the key set, the
\* stored values, the recency order and occupiedWeight as they were.
C6_EraseAbsent ==
    [][(last'.op = "Erase" /\ last'.key \notin DOMAIN c.index) =>
        /\ ~last'.panicked
        /\ last'.ret = NilValue
        /\ DOMAIN c'.index = DOMAIN c.index
        /\ EntriesOf(c') = EntriesOf(c)
        /\ c'.occupiedWeight = c.occupiedWeight
        /\ c' = c
    ]_vars

\* Erase of an absent key has returned on a cache that holds two other keys
C6_Witness ==
    /\ last.op = "Erase" /\ ~last.panicked
    /\ last.key \notin DOMAIN c.index
    /\ Len(c.entries) = 2
    /\ c.occupiedWeight > 0

\* C7: LookUp never changes the key set, the stored values or occupiedWeight;
\* a miss returns empty and keeps the recency order, a hit returns the stored
\* value and moves only that key to the front, the others keeping their order.
C7_LookUpFrame ==
    [][last'.op = "LookUp" =>
        /\ DOMAIN c'.index = DOMAIN c.index
        /\ \A k \in DOMAIN c.index : StoredValue(c', k) = StoredValue(c, k)
        /\ c'.occupiedWeight = c.occupiedWeight
        /\ c'.maxWeight = c.maxWeight
        /\ last'.key \notin DOMAIN c.index =>
              /\ last'.ret = NilValue
              /\ EntriesOf(c') = EntriesOf(c)
        /\ last'.key \in DOMAIN c.index =>
              /\ last'.ret = StoredValue(c, last'.key)
              /\ KeysOf(c') = Touch(KeysOf(c), last'.key)
              /\ EntriesOf(c') =
                    <<Entry(last'.key, StoredValue(c, last'.key))>> \o
                    SelectSeq(EntriesOf(c), LAMBDA ent : ent.Key # last'.key)
    ]_vars

\* a LookUp hit on A has moved it from behind B and C to the front
C7_Witness ==
    /\ last.op = "LookUp" /\ last.key = "A"
    /\ last.ret # NilValue
    /\ KeysOf(c) = <<"A", "C", "B">>
    /\ touched = <<"A", "C", "B">>

\* the index and the recency list hold the same elements
Bijection(cc) ==
    /\ Len(cc.entries) = Cardinality(DOMAIN cc.index)
    /\ \A i, j \in 1..Len(cc.entries) :
          (cc.entries[i] = cc.entries[j] \/ KeysOf(cc)[i] = KeysOf(cc)[j]) => i = j
    /\ \A k \in DOMAIN cc.index :
          /\ cc.index[k] \in SeqRange(cc.entries)
          /\ cc.heap[cc.index[k]].Key = k
    /\ \A i \in 1..Len(cc.entries) :
          /\ KeysOf(cc)[i] \in DOMAIN cc.index
          /\ cc.index[KeysOf(cc)[i]] = cc.entries[i]

\* C8: GobDecode of what GobEncode returned for the cache yields a cache with
\* the same maxWeight, occupiedWeight, entries in the same recency order and
\* key-to-value mapping, with an index on which CheckInvariants returns.
C8_GobRoundTrip ==
    [][(last.op = "GobEncode" /\ last'.op = "GobDecode" /\ last'.blob = GobEncode(c)) =>
        /\ last'.err = "nil"
        /\ c'.maxWeight = c.maxWeight
        /\ c'.occupiedWeight = c.occupiedWeight
        /\ EntriesOf(c') = EntriesOf(c)
        /\ DOMAIN c'.index = DOMAIN c.index
        /\ \A k \in DOMAIN c.index : StoredValue(c', k) = StoredValue(c, k)
        /\ Bijection(c')
        /\ c.maxWeight > 0 => CheckInvariants(c')
    ]_vars

\* a cache of three entries of different weights has been decoded from its
\* own encoding
C8_Witness ==
    /\ last.op = "GobDecode" /\ last.err = "nil" /\ Len(last.blob) = 3
    /\ c.maxWeight > 0
    /\ Len(c.entries) = 3
    /\ Weight(StoredValue(c, "A")) # Weight(StoredValue(c, "B"))

InBody(t) ==
    pc[t] \in {"ins_find", "ins_upd_sub", "ins_upd_add", "ins_upd_set", "ins_upd_move",
               "ins_push", "ins_index", "ins_add", "ins_loop",
               "ev_back", "ev_sub", "ev_remove", "ev_delete",
               "er_find", "lk_find", "lk_move", "ge_read",
               "ci_max", "ci_occ", "ci_len", "ci_index",
               "gd_new", "gd_push", "gd_index", "gd_occ"}

\* thread t has written a part of its call's update and not yet the rest
MidUpdate(t) ==
    \/ pc[t] \in {"ins_upd_add", "ins_upd_set", "ins_upd_move", "ins_index", "ins_add",
                  "ev_remove", "ev_delete", "gd_push", "gd_index", "gd_occ"}
    \/ /\ pc[t] \in {"ins_loop", "ev_back", "ev_sub"}
       /\ Above(c.occupiedWeight, c.maxWeight)

\* C10 (as claimed): the public operations of a cache are mutually exclusive:
\* no thread is inside an operation, about to read or write the index, the
\* recency list or occupiedWeight, while another thread is in the middle of
\* its operation's update.
C10_MutualExclusion ==
    \A t, u \in Threads : t # u => ~(InBody(t) /\ MidUpdate(u))

\* C11: New(0) fails fast: no Insert, Erase or LookUp is ever executed on a
\* cache whose maxWeight is 0.
C11_NewRejectsZero ==
    last.op \in {"Insert", "Erase", "LookUp"} => Above(c.maxWeight, 0)

\* C12: an Insert of a nil value panics and leaves the cache as it was: the
\* step in which a thread calls Insert(key, nil) ends the call with a panic,
\* changes neither the entries, the index, the recency order nor
\* occupiedWeight, and does not touch c.mu.
C12_InsertNil ==
    [][\A t \in Threads :
          (/\ pc[t] = "idle" /\ pc'[t] # "idle"
           /\ loc'[t].op = "Insert" /\ loc'[t].value = NilValue)
          => (/\ pc'[t] = "done" /\ loc'[t].panicked
              /\ c' = c /\ mu' = mu)]_vars

\* a thread's Insert of nil has panicked on a cache that holds an entry
C12_Witness ==
    \E t \in Threads :
        /\ pc[t] = "done" /\ loc[t].op = "Insert" /\ loc[t].panicked
        /\ c.entries # <<>>

\* C13: CheckInvariants returns normally exactly when maxWeight > 0,
\* occupiedWeight <= maxWeight, the index and the recency list agree, and
\* occupiedWeight is the sum of Weight() over the stored entries; in every
\* other state it panics.
C13_CheckInvariantsComplete ==
    last.op = "CheckInvariants" =>
        (~last.panicked <=>
            /\ Above(c.maxWeight, 0)
            /\ ~Above(c.occupiedWeight, c.maxWeight)
            /\ Bijection(c)
            /\ c.occupiedWeight = SumWeights(EntriesOf(c)))

\* the statuses from which a job goes nowhere
Terminal == {COMPLETED, FAILED, CANCELLED}

\* the length of one chunk of the sequential read
ChunkSize == 1

\* C14: a new job is NOT_STARTED with offset 0, no error and no subscribers,
\* and once a Download call has been made on a job its status name is not
\* NOT_STARTED any more (the first Download moves it to DOWNLOADING).
C14_DownloadStarts ==
    /\ jlast.op = "NewJob" =>
          /\ job.status = JobStatus(NOT_STARTED, "nil", 0)
          /\ job.subscribers = <<>>
    /\ jhist.downloads > 0 => job.status.Name # NOT_STARTED
    /\ (jlast.op = "Download" /\ jhist.downloads = 1) =>
          job.status.Name = DOWNLOADING

\* C15: the JobStatus a Download with waitForDownload = false returns is the
\* job's status (name, err and offset), whatever the job's state and the
\* offset asked for.
C15_DownloadPolls ==
    (jlast.op = "Download" /\ ~jlast.waitForDownload) =>
        /\ jlast.outcome = "returned"
        /\ jlast.jobStatus = job.status

\* C16: when a Download with waitForDownload = true returns to a caller
\* whose context is not cancelled, the job's offset has reached the offset
\* asked for or the job is in a terminal state, and the status returned
\* says so.
C16_DownloadWaits ==
    (jlast.op = "Download" /\ jlast.waitForDownload /\ jlast.ctx = "live") =>
        /\ job.status.Offset >= jlast.offset \/ job.status.Name \in Terminal
        /\ jlast.jobStatus.Offset >= jlast.offset
              \/ jlast.jobStatus.Name \in Terminal

\* C17: a Cancel on a job that is NOT_STARTED or DOWNLOADING leaves it
\* CANCELLED, with every subscriber that was queued removed from the list,
\* its channel holding one status of name CANCELLED.
C17_CancelCancels ==
    [][(jlast'.op = "Cancel" /\ job.status.Name \in {NOT_STARTED, DOWNLOADING}) =>
          /\ job'.status.Name = CANCELLED
          /\ job'.subscribers = <<>>
          /\ \A i \in 1..Len(job.subscribers) :
                LET ch == job'.chans[job.subscribers[i].notificationC]
                IN  Len(ch.buf) = 1 /\ ch.buf[1].Name = CANCELLED]_vars

\* C18: Cancel is idempotent.  A second Cancel right after a first one
\* leaves the terminal status the first one left; a Cancel on a job that is
\* already terminal changes nothing; and no Cancel sends to the channel of a
\* subscriber that was fired before.
C18_CancelIdempotent ==
    [][jlast'.op = "Cancel" =>
          /\ (jlast.op = "Cancel" /\ jhist'.cancels = 2) =>
                /\ job'.status = job.status
                /\ job'.status.Name \in Terminal
          /\ job.status.Name \in Terminal => job' = job
          /\ \A ch \in 1..Len(job.chans) :
                job.chans[ch].closed => job'.chans[ch] = job.chans[ch]]_vars

\* C19: COMPLETED, FAILED and CANCELLED are absorbing: no step taken from a
\* job in one of them changes the status name or the recorded error.
C19_TerminalAbsorbing ==
    [][job.status.Name \in Terminal =>
          /\ job'.status.Name = job.status.Name
          /\ job'.status.Err = job.status.Err]_vars

\* C20: status.offset never decreases, changes only while the job is
\* DOWNLOADING and then by one chunk (or up to the object size), does not
\* change once the job is COMPLETED, FAILED or CANCELLED, and, once Download
\* has started the job, advances up to the object size unless the job fails
\* or is cancelled.
C20_OffsetAdvances ==
    /\ [][/\ job'.status.Offset >= job.status.Offset
          /\ job'.status.Offset # job.status.Offset =>
                /\ job.status.Name = DOWNLOADING
                /\ job'.status.Offset \in
                      {job.status.Offset + ChunkSize, ObjectSize}
          /\ job.status.Name \in Terminal =>
                job'.status.Offset = job.status.Offset]_vars
    /\ (jhist.downloads > 0) ~>
          (job.status.Offset = ObjectSize \/ job.status.Name \in {FAILED, CANCELLED})

\* a step in which notifySubscribers ran to its end, called alone or by
\* failWhileDownloading
NotifyRan ==
    /\ jlast'.op \in {"notifySubscribers", "failWhileDownloading"}
    /\ jlast'.outcome = "returned"

\* subscriber s is ready under status st
Ready(st, s) ==
    st.Name \in {FAILED, CANCELLED} \/ s.subscribedOffset <= st.Offset

\* C21: a run of notifySubscribers fires exactly the subscribers whose
\* subscribedOffset <= status.offset, or all of them when the job is FAILED or
\* CANCELLED: a fired subscriber's channel holds exactly that one status and
\* is closed, and the subscriber is off the list; every other subscriber
\* stays on the list, in place, with its channel untouched; and a channel
\* that was fired once is never written again.
C21_NotifyRule ==
    [][/\ NotifyRan =>
            /\ job'.subscribers =
                    SelectSeq(job.subscribers, LAMBDA sub : ~Ready(job'.status, sub))
            /\ \A i \in 1..Len(job.subscribers) :
                  LET sub == job.subscribers[i]
                  IN  job'.chans[sub.notificationC] =
                          IF Ready(job'.status, sub)
                          THEN [buf |-> <<job'.status>>, closed |-> TRUE]
                          ELSE NewChan
       /\ \A ch \in 1..Len(job.chans) :
            job.chans[ch].closed => job'.chans[ch] = job.chans[ch]]_vars

\* a run has fired one subscriber and left another, whose offset is not
\* reached, on the list, while a channel fired by an earlier run exists
C21_Witness ==
    /\ jlast.op = "notifySubscribers" /\ jlast.outcome = "returned"
    /\ job.status.Name = DOWNLOADING
    /\ Len(jlast.fired) = 1
    /\ jlast.fired[1].subscribedOffset = job.status.Offset
    /\ Len(job.subscribers) = 1
    /\ job.subscribers[1].subscribedOffset > job.status.Offset

\* C22: failWhileDownloading(err) leaves the job FAILED with err recorded,
\* every subscriber that was queued, whatever its offset, holds the status
\* (FAILED, err) on its closed channel, and the subscriber list is empty.
C22_FailFansOut ==
    [][jlast'.op = "failWhileDownloading" =>
          /\ jlast'.outcome = "returned"
          /\ job'.status = JobStatus(FAILED, jlast'.err, job.status.Offset)
          /\ job'.subscribers = <<>>
          /\ \A i \in 1..Len(job.subscribers) :
                job'.chans[job.subscribers[i].notificationC] =
                    [buf |-> <<JobStatus(FAILED, jlast'.err, job.status.Offset)>>,
                     closed |-> TRUE]]_vars

\* a failure has fired two subscribers, one whose offset was reached and one
\* whose offset was not
C22_Witness ==
    /\ jlast.op = "failWhileDownloading"
    /\ jlast.before.Name = DOWNLOADING
    /\ Len(jlast.fired) = 2
    /\ \E i, j \in 1..2 :
          /\ jlast.fired[i].subscribedOffset <= jlast.before.Offset
          /\ jlast.fired[j].subscribedOffset > jlast.before.Offset

C24_FiringOrder ==
    [][NotifyRan =>
          \A i, j \in 1..Len(jlast'.fired) :
              i < j => jlast'.fired[i].notificationC < jlast'.fired[j].notificationC]_vars

\* one run has fired two subscribers
C24_Witness ==
    /\ jlast.op = "notifySubscribers" /\ jlast.outcome = "returned"
    /\ Len(jlast.fired) = 2

\* two subscribers of a run's fired list that the status update of this step
\* made ready: neither was ready under the status before it
MadeReady(i, j) ==
    /\ i \in 1..Len(jlast'.fired) /\ j \in 1..Len(jlast'.fired)
    /\ ~Ready(jlast'.before, jlast'.fired[i])
    /\ ~Ready(jlast'.before, jlast'.fired[j])

\* C25: when one status update makes ready a subscriber waiting for X and a
\* subscriber waiting for Y, X <= Y, the one waiting for Y is not notified
\* before the one waiting for X, whichever subscribed first.
C25_OffsetOrder ==
    [][NotifyRan =>
          \A i, j \in 1..Len(jlast'.fired) :
              (MadeReady(i, j) /\ i < j) =>
                  jlast'.fired[i].subscribedOffset <= jlast'.fired[j].subscribedOffset]_vars

\* C25 as amended: when one status update makes ready a subscriber waiting
\* for X and a subscriber waiting for Y, X <= Y, the one waiting for Y is
\* notified before the one waiting for X only if it subscribed first.
C25_OffsetOrderUnlessEarlier ==
    [][NotifyRan =>
          \A i, j \in 1..Len(jlast'.fired) :
              (/\ MadeReady(i, j) /\ i < j
               /\ jlast'.fired[i].subscribedOffset > jlast'.fired[j].subscribedOffset)
              => jlast'.fired[i].notificationC < jlast'.fired[j].notificationC]_vars

\* a failure has made ready, and fired, the subscriber waiting for the larger
\* offset first: it had subscribed first
C25_Witness ==
    /\ jlast.op = "failWhileDownloading"
    /\ Len(jlast.fired) = 2
    /\ ~Ready(jlast.before, jlast.fired[1]) /\ ~Ready(jlast.before, jlast.fired[2])
    /\ jlast.fired[1].subscribedOffset > jlast.fired[2].subscribedOffset
    /\ jlast.fired[1].notificationC < jlast.fired[2].notificationC

\* the keys of the cache from most to least recently used, without those
\* that are not in keep
OrderAmong(cc, keep) == SelectSeq(KeysOf(cc), LAMBDA k : k \in keep)

\* C26: a progress update of the job's FileInfo entry is not an access: the
\* entries that stay in the cache are in the same recency order, the order
\* in which they would be evicted, before and after updateFileInfoCache
C26_UpdateKeepsRecency ==
    [][UpdateFileInfoCacheOp /\ JobKey \in DOMAIN c.index
          => OrderAmong(c, DOMAIN c'.index) = KeysOf(c')]_vars

\* C27: when the job's FileInfo entry is evicted, or Erase is called on it,
\* the job is as it was, and a LookUp of the evicted entry is a miss
C27_EvictionLeavesJob ==
    [][/\ (JobKey \in DOMAIN c.index /\ JobKey \in SeqRange(last'.evictedKeys))
           => /\ job' = job
              /\ LookUp(c', JobKey).ret = NilValue
       /\ (last'.op = "Erase" /\ last'.key = JobKey) => job' = job]_vars

C27_Witness ==
    /\ last.op = "Insert"
    /\ last.key # JobKey
    /\ JobKey \in SeqRange(last.evictedKeys)
    /\ "Offset" \in DOMAIN last.evicted[1]
    /\ job.status.Name = DOWNLOADING
    /\ JobKey \notin DOMAIN c.index

\* the step is a listing of explicitDir, and NewRead is what it returned
ReadStep == Len(fs'.reads) = Len(fs.reads) + 1
NewRead == fs'.reads[Len(fs'.reads)]

\* the last listing the filesystem served, if there is one
FreshReads(f) == {i \in 1..Len(f.reads) : f.reads[i].by = "filesystem"}
LastFreshAt(f) == CHOOSE i \in FreshReads(f) : \A j \in FreshReads(f) : j <= i
LastFresh(f) == f.reads[LastFreshAt(f)]
SinceFresh(f) == f.now - LastFresh(f).at

\* the listing the filesystem served last is still the kernel's: nothing
\* was changed through the mount since
Kept(f) == FreshReads(f) # {} /\ f.kernel.held

\* C28: with a positive ttl, and nothing changed through the mount, a
\* listing less than ttl after the last one the filesystem served returns
\* that listing, whatever was added to the bucket since, and a listing more
\* than ttl after it returns the directory as it is now
C28_PositiveTtl ==
    [][ReadStep /\ fs.ttl > 0 /\ Kept(fs)
          => /\ SinceFresh(fs) < fs.ttl => NewRead.names = LastFresh(fs).names
             /\ SinceFresh(fs) > fs.ttl => NewRead.names = Listing(fs.bucket)]_vars

C28_Witness ==
    /\ fs.ttl > 0
    /\ Len(fs.reads) = 3
    /\ fs.reads[1].names = <<1, 2>>
    /\ fs.reads[2].by = "kernel"
    /\ fs.reads[2].at < fs.ttl
    /\ fs.reads[2].names = <<1, 2>>
    /\ fs.reads[2].content = <<1, 2, 3>>
    /\ fs.reads[3].by = "filesystem"
    /\ fs.reads[3].at > fs.ttl
    /\ fs.reads[3].names = <<1, 2, 3>>

\* C29: the window restarts when the filesystem serves the listing again:
\* a listing less than ttl after a second or later serve returns what that
\* serve returned
C29_WindowRestarts ==
    [][ReadStep /\ fs.ttl > 0 /\ Kept(fs) /\ LastFreshAt(fs) > 1
                /\ SinceFresh(fs) < fs.ttl
          => NewRead.names = LastFresh(fs).names]_vars

C29_Witness ==
    /\ fs.ttl > 0
    /\ Len(fs.reads) = 3
    /\ fs.reads[1].names = <<1, 2>>
    /\ fs.reads[2].by = "filesystem"
    /\ fs.reads[2].at - fs.reads[1].at > fs.ttl
    /\ fs.reads[2].names = <<1, 2, 3>>
    /\ fs.reads[3].by = "kernel"
    /\ fs.reads[3].at - fs.reads[2].at < fs.ttl
    /\ fs.reads[3].at - fs.reads[1].at > fs.ttl
    /\ fs.reads[3].names = <<1, 2, 3>>
    /\ fs.reads[3].content = <<1, 2, 3, 4>>

\* C30: with ttl 0 the filesystem serves every listing: it returns the
\* directory as it is now
C30_ZeroTtl ==
    [][ReadStep /\ fs.ttl = ZeroTtl
          => NewRead.by = "filesystem" /\ NewRead.names = Listing(fs.bucket)]_vars

C30_Witness ==
    /\ fs.ttl = ZeroTtl
    /\ fs.now = 0
    /\ Len(fs.reads) = 2
    /\ fs.reads[1].names = <<1, 2>>
    /\ fs.reads[2].names = <<1, 2, 3>>

\* a change was made through the mount after the last listing the
\* filesystem served
Invalidated(f) == f.mounted > LastFresh(f).mounted

C32_GiveUpLeavesJob ==
    [][(/\ jlast'.op = "Download" /\ jlast'.waitForDownload
        /\ jlast'.ctx = "cancelled"
        /\ job.status.Name \notin Terminal
        /\ job.status.Offset < jlast'.offset)
          => /\ job'.status.Name = DOWNLOADING
             /\ job'.status.Offset = job.status.Offset
             /\ job'.status.Err = job.status.Err
             /\ job'.subscribers = job.subscribers]_vars

\* the statuses that were sent to the channel of subscriber ch
Delivered(ch) == job.chans[ch].buf

Written == last'.value

InsertStep == last'.op = "Insert" /\ last'.value # NilValue

\* the keys of the cache from least to most recently used, without key
EvictionOrderWithout(cc, key) == Reverse(SeqWithout(KeysOf(cc), key))

\* C35: an Insert of a value that weighs more than maxWeight returns: it
\* evicts every entry, least recently used first and the new one last,
\* returns their values in that order, and leaves the cache empty with
\* occupiedWeight 0; and no Insert calls evictOne on an empty list
C35_OversizedInsert ==
    [][InsertStep
          => /\ ~last'.panicked
             /\ Above(Weight(last'.value), c.maxWeight)
                   => /\ c'.entries = <<>>
                      /\ DOMAIN c'.index = {}
                      /\ c'.occupiedWeight = 0
                      /\ last'.evictedKeys =
                            Append(EvictionOrderWithout(c, last'.key), last'.key)
                      /\ Len(last'.evicted) = Len(last'.evictedKeys)
                      /\ last'.evicted[Len(last'.evicted)] = last'.value
                      /\ \A i \in 1..(Len(last'.evicted) - 1) :
                            last'.evicted[i] =
                                c.heap[c.index[last'.evictedKeys[i]]].Value]_vars

C35_Witness ==
    /\ last.op = "Insert"
    /\ Above(Weight(last.value), c.maxWeight)
    /\ c.maxWeight > 0
    /\ Len(last.evicted) = 3
    /\ last.evicted[3] = last.value
    /\ c.entries = <<>>
    /\ c.occupiedWeight = 0

\* the values the cache holds under keys other than key
OtherValues(cc, key) == {Stored(cc, k) : k \in DOMAIN cc.index \ {key}}

\* C36: an Insert over a key the cache holds returns only what the loop
\* evicted: each value returned is the value that was stored under an evicted
\* key, for the key itself the new value and not the one it replaced; no
\* key evicted is in the cache afterwards; and the replaced value, when it
\* differs from the new value and from what the other keys hold, is not
\* returned
C36_ReplacedNotReturned ==
    [][(InsertStep /\ last'.key \in DOMAIN c.index)
          => /\ ~last'.panicked
             /\ Len(last'.evicted) = Len(last'.evictedKeys)
             /\ \A i \in 1..Len(last'.evicted) :
                   /\ last'.evicted[i] =
                         IF last'.evictedKeys[i] = last'.key
                         THEN last'.value
                         ELSE Stored(c, last'.evictedKeys[i])
                   /\ last'.evictedKeys[i] \notin DOMAIN c'.index
                   /\ \A j \in 1..Len(last'.evicted) :
                         last'.evictedKeys[i] = last'.evictedKeys[j] => i = j
             /\ Stored(c, last'.key) \notin OtherValues(c, last'.key) \cup {last'.value}
                   => Stored(c, last'.key) \notin SeqRange(last'.evicted)]_vars

\* an overwrite that made the loop evict another entry and then the key
C36_Witness ==
    /\ last.op = "Insert"
    /\ ~last.panicked
    /\ last.replaced = "dropped"
    /\ Len(last.evicted) = 2
    /\ last.evictedKeys[2] = last.key
    /\ last.evicted[2] = last.value

\* the positions of channel ch in the list of subscribers
Queued(ch) == {i \in 1..Len(job.subscribers) : job.subscribers[i].notificationC = ch}

\* C37: notifySubscribers never blocks and never panics: a channel holds at
\* most the one status its capacity allows; until it is sent to it is open
\* and queued once; the send closes it and takes it off the list, so it is
\* not sent to or closed again
C37_NotifyNeverBlocks ==
    /\ jlast.op \in {"notifySubscribers", "failWhileDownloading"}
          => jlast.outcome = "returned" /\ job.mu = "unlocked"
    /\ \A ch \in 1..Len(job.chans) :
          /\ Len(Delivered(ch)) <= ChanCap
          /\ job.chans[ch].closed => Len(Delivered(ch)) = 1 /\ Queued(ch) = {}
          /\ ~job.chans[ch].closed
                => Delivered(ch) = <<>> /\ Cardinality(Queued(ch)) = 1

\* two subscribers sent the status in one run, nobody reading, and a later
\* run with nothing left to send
C37_Witness ==
    /\ jlast.op = "notifySubscribers"
    /\ jlast.outcome = "returned"
    /\ jlast.fired = <<>>
    /\ Len(job.chans) = 2
    /\ \A ch \in 1..2 : job.chans[ch].closed /\ Len(Delivered(ch)) = 1
    /\ job.subscribers = <<>>

\* C38: when notifySubscribers has returned, the list holds, in the order
\* they had, exactly the subscribers whose subscribedOffset is above the
\* status offset, if the job is neither FAILED nor CANCELLED, and nobody if
\* it is
C38_RemainingSubscribers ==
    [][(jlast'.op = "notifySubscribers" /\ jlast'.outcome = "returned")
          => /\ job'.status = job.status
             /\ job'.subscribers =
                   IF job.status.Name \in {FAILED, CANCELLED}
                   THEN <<>>
                   ELSE SelectSeq(job.subscribers,
                                  LAMBDA s : s.subscribedOffset > job.status.Offset)]_vars

\* one of two subscribers was reached and sent the status, the other stays
C38_Witness ==
    /\ jlast.op = "notifySubscribers"
    /\ jlast.outcome = "returned"
    /\ jlast.before.Name \in {DOWNLOADING, COMPLETED}
    /\ Len(jlast.fired) = 1
    /\ Len(job.subscribers) = 1
    /\ job.subscribers[1].subscribedOffset > job.status.Offset
    /\ jlast.fired[1].subscribedOffset <= job.status.Offset

\* C39: a GobDecode that fails on maxWeight or on occupiedWeight leaves the
\* receiver as it was; one that fails on the entries leaves it empty, with
\* occupiedWeight 0 and the maxWeight of the stream; and GobEncode leaves
\* the cache it encodes as it was
C39_GobFailures ==
    [][/\ (last'.op = "GobDecode"
            /\ last'.err \in {"decoding maxWeight", "decoding occupiedWeight"})
           => c' = c
       /\ (last'.op = "GobDecode" /\ last'.err = "decoding entries")
           => /\ c'.entries = <<>>
              /\ DOMAIN c'.index = {}
              /\ c'.occupiedWeight = 0
              /\ c'.maxWeight = last'.blob[1].val
       /\ last'.op = "GobEncode" => c' = c]_vars

\* a cache with entries was the receiver of a stream that ends after its
\* occupiedWeight and names another maxWeight
C39_Witness ==
    /\ last.op = "GobDecode"
    /\ last.err = "decoding entries"
    /\ Len(last.before) = 2
    /\ last.before[2] > 0
    /\ last.before[1] # last.blob[1].val
    /\ c.entries = <<>>
    /\ c.occupiedWeight = 0
    /\ c.maxWeight = last.blob[1].val

=============================================================================
